---- MODULE Spec2Model ----
(***************************************************************************)
(* State-machine model of AppComponent (src/src/app.component.ts): the     *)
(* library loader, the document loader, the page renderer, the edit        *)
(* tracker and the export pipeline.  One action is one run of the event    *)
(* loop: a user event, a script event, a timer or the settling of an       *)
(* awaited library promise, together with the microtasks it drains.        *)
(***************************************************************************)
EXTENDS Integers, Sequences, FiniteSets, TLC

\* ------------------------------------------------------------------ bounds

\* user events (file selection, page change, zoom, edit, export) per behaviour
MaxActions == 3
\* user events per behaviour that starts from a session with recorded edits
MaxExportActions == 2
\* zoom and page buttons pressed per behaviour before any document is loaded
MaxZoomActions == 9
\* user events per behaviour when renderPage is also called directly
MaxRenderActions == 3
\* user events per behaviour when the view disables its controls while loading
MaxGatedActions == 4

\* ------------------------------------------------------- program constants

\* the zoom factor is kept in quarters: 1.25 is 5, 0.25 is 1, 0.5 is 2, 3 is 12
InitialZoom == 5
ZoomStep == 1
ZoomMax == 12
ZoomMin == 2

Null == "null"
PdfJsUrl == "pdf.min.js"
PdfLibUrl == "pdf-lib.min.js"
Urls == <<PdfJsUrl, PdfLibUrl>>
PdfType == "application/pdf"

NoAlert == "none"
AlertNotPdf == "Please select a PDF file."
AlertLoadFailed == "Failed to load PDF file."
AlertLibraries == "Failed to load required PDF libraries."
AlertRender == "An error occurred while rendering the page."
AlertNoPdf == "No PDF loaded or PDF library not available."
AlertNoChanges == "No changes have been made."
AlertSave == "An error occurred while saving the PDF."

\* ------------------------------------------------------------------ inputs

\* the files the user can pick: two well-formed documents, one whose bytes
\* no library can parse, and one that is not a PDF
File(n, t) == [name |-> n, type |-> t]
Files == {File("docA", PdfType), File("docB", PdfType),
          File("corrupt", PdfType), File("notes", "text/plain")}
\* input.files: nothing selected, or one file
Selections == {<<>>} \cup {<<f>> : f \in Files}
Docs == {"docA", "docB"}
Texts == {"", "X"}

Item(s, w, h, x, y) == [str |-> s, width |-> w, height |-> h,
                        transform |-> <<1, 0, 0, 1, x, y>>]

\* what the rasterizer reports for a parsed document
NumPages(d) == IF d = "docA" THEN 2 ELSE 1
PageWidth(d, p) == IF d = "docA" THEN 612 ELSE 595
PageHeight(d, p) == IF d = "docA" THEN 792 ELSE 842
Items(d, p) ==
  IF d = "docA" /\ p = 1
    THEN <<Item("Hello", 40, 12, 50, 700), Item("World", 30, 10, 100, 650)>>
  ELSE IF d = "docA" THEN <<Item("Page2", 35, 14, 72, 500)>>
  ELSE <<Item("Other", 20, 8, 60, 800)>>

\* ------------------------------------------------------------------- state

VARIABLES
  isLoading, pdfFileBuffer, pdfDocProxy, currentPage, totalPages, zoom,
  canvasWidth, canvasHeight, textItems, editedTexts,
  scriptsLoadedPromise,  \* 0 (null) or the index of a promise in promises
  canvasRef,             \* whether the view holds the canvas element
  scripts,               \* the script elements appended to the document
  promises,              \* the promises loadPdfLibraries has created
  workerSrc,             \* pdfjsLib.GlobalWorkerOptions.workerSrc is set
  fileChains,            \* onFileSelected calls suspended at an await
  renderChains,          \* renderPage calls suspended at an await
  exportChains,          \* downloadPdf calls suspended at an await
  lastAlert,             \* the text of the latest alert()
  download,              \* the latest downloaded file: its source bytes and drawings
  budget                 \* user events the behaviour may still take

loaderVars == <<scriptsLoadedPromise, scripts, promises, workerSrc>>
sessionVars == <<pdfFileBuffer, pdfDocProxy, currentPage, totalPages, zoom>>
viewVars == <<canvasWidth, canvasHeight, textItems>>
chainVars == <<fileChains, renderChains, exportChains>>
vars == <<isLoading, pdfFileBuffer, pdfDocProxy, currentPage, totalPages, zoom,
          canvasWidth, canvasHeight, textItems, editedTexts,
          scriptsLoadedPromise, canvasRef, scripts, promises, workerSrc,
          fileChains, renderChains, exportChains, lastAlert, download, budget>>

\* ----------------------------------------------------------------- helpers

Without(f, k) == [x \in DOMAIN f \ {k} |-> f[x]]
With(f, k, v) == [x \in DOMAIN f \cup {k} |-> IF x = k THEN v ELSE f[x]]
FreshId(f) == CHOOSE i \in 1..(Cardinality(DOMAIN f) + 1) : i \notin DOMAIN f
EmptyChains == [x \in {} |-> Null]
\* no file has been downloaded
NoDownload == [src |-> Null, ops |-> <<>>]

\* document.querySelector(`script[src="${url}"]`)
querySelector(els, url) == \E k \in DOMAIN els : els[k].src = url
\* typeof pdfjsLib !== 'undefined', typeof PDFLib !== 'undefined': the global
\* exists once a script element of that library has run
Defined(els, url) == \E k \in DOMAIN els : els[k].src = url /\ els[k].state = "loaded"

\* roundedZoom: Math.round(zoom * 100)
roundedZoom == zoom * 25

\* the component as constructed, with `events` user events to come
Fresh(events) ==
  /\ isLoading = FALSE
  /\ pdfFileBuffer = Null
  /\ pdfDocProxy = Null
  /\ currentPage = 1
  /\ totalPages = 0
  /\ zoom = InitialZoom
  /\ canvasWidth = 0
  /\ canvasHeight = 0
  /\ textItems = <<>>
  /\ editedTexts = <<>>
  /\ scriptsLoadedPromise = 0
  /\ canvasRef = FALSE
  /\ scripts = <<>>
  /\ promises = <<>>
  /\ workerSrc = FALSE
  /\ fileChains = EmptyChains
  /\ renderChains = EmptyChains
  /\ exportChains = EmptyChains
  /\ lastAlert = NoAlert
  /\ download = NoDownload
  /\ budget = events

Init == Fresh(MaxActions)

\* ---------------------------------------------------------- library loader

\* loadScript(url), called for the promise `owner`: the document after the
\* call and the state of the promise it returns
loadScript(els, url, owner) ==
  IF querySelector(els, url)
    THEN [scripts |-> els, leg |-> "resolved"]
    ELSE [scripts |-> Append(els, [src |-> url, state |-> "loading", owner |-> owner]),
          leg |-> "pending"]

\* the .then() callback of loadPdfLibraries
configureWorker(els, ws) == ws \/ Defined(els, PdfJsUrl)

AllState(legs) ==
  IF \E i \in DOMAIN legs : legs[i] = "rejected" THEN "rejected"
  ELSE IF \A i \in DOMAIN legs : legs[i] = "resolved" THEN "resolved"
  ELSE "pending"

\* loadPdfLibraries without its test of scriptsLoadedPromise: every call starts
\* a load of its own
loadPdfLibrariesUncached ==
  LET id == Len(promises) + 1
      a == loadScript(scripts, Urls[1], id)
      b == loadScript(a.scripts, Urls[2], id)
      legs == <<a.leg, b.leg>>
      st == AllState(legs)
  IN [promise |-> id,
      cached |-> id,
      scripts |-> b.scripts,
      promises |-> Append(promises, [state |-> st, legs |-> legs]),
      workerSrc |-> IF st = "resolved"
                      THEN configureWorker(b.scripts, workerSrc)
                      ELSE workerSrc]

\* loadPdfLibraries(): the promise returned and the loader state after the call
loadPdfLibraries ==
  IF scriptsLoadedPromise = 0
    THEN LET id == Len(promises) + 1
             a == loadScript(scripts, Urls[1], id)
             b == loadScript(a.scripts, Urls[2], id)
             legs == <<a.leg, b.leg>>
             st == AllState(legs)
         IN [promise |-> id,
             cached |-> id,
             scripts |-> b.scripts,
             promises |-> Append(promises, [state |-> st, legs |-> legs]),
             workerSrc |-> IF st = "resolved"
                             THEN configureWorker(b.scripts, workerSrc)
                             ELSE workerSrc]
    ELSE [promise |-> scriptsLoadedPromise,
          cached |-> scriptsLoadedPromise,
          scripts |-> scripts,
          promises |-> promises,
          workerSrc |-> workerSrc]

Waiting(p) == {c \in DOMAIN fileChains :
                 fileChains[c].pc = "libs" /\ fileChains[c].promise = p}
LegOf(k) == CHOOSE i \in DOMAIN Urls : Urls[i] = scripts[k].src

\* script.onload of element k
ScriptOnload(k) ==
  /\ k \in DOMAIN scripts
  /\ scripts[k].state = "loading"
  /\ LET p == scripts[k].owner
         els == [scripts EXCEPT ![k].state = "loaded"]
         legs == [promises[p].legs EXCEPT ![LegOf(k)] = "resolved"]
         settles == promises[p].state = "pending" /\ AllState(legs) = "resolved"
     IN /\ scripts' = els
        /\ promises' = [promises EXCEPT ![p] =
               [state |-> IF settles THEN "resolved" ELSE @.state, legs |-> legs]]
        /\ workerSrc' = IF settles THEN configureWorker(els, workerSrc) ELSE workerSrc
        /\ fileChains' = [c \in DOMAIN fileChains |->
               IF settles /\ c \in Waiting(p)
                 THEN [fileChains[c] EXCEPT !.pc = "arrayBuffer"]
                 ELSE fileChains[c]]
  /\ UNCHANGED <<isLoading, sessionVars, viewVars, editedTexts, scriptsLoadedPromise,
                 canvasRef, renderChains, exportChains, lastAlert, download, budget>>

\* script.onerror of element k
ScriptOnerror(k) ==
  /\ k \in DOMAIN scripts
  /\ scripts[k].state = "loading"
  /\ LET p == scripts[k].owner
         legs == [promises[p].legs EXCEPT ![LegOf(k)] = "rejected"]
         settles == promises[p].state = "pending"
         failed == IF settles THEN Waiting(p) ELSE {}
     IN /\ scripts' = [scripts EXCEPT ![k].state = "error"]
        /\ promises' = [promises EXCEPT ![p] = [state |-> "rejected", legs |-> legs]]
        /\ scriptsLoadedPromise' = IF settles THEN 0 ELSE scriptsLoadedPromise
        /\ fileChains' = [c \in DOMAIN fileChains \ failed |-> fileChains[c]]
        /\ isLoading' = IF failed # {} THEN FALSE ELSE isLoading
        /\ lastAlert' = IF failed # {} THEN AlertLibraries ELSE lastAlert
  /\ UNCHANGED <<sessionVars, viewVars, editedTexts, workerSrc, canvasRef,
                 renderChains, exportChains, download, budget>>

\* --------------------------------------------------------- document loader

\* no test of the file's type
isPdfAny(f) == TRUE
isPdf(f) == f.type = PdfType

\* onFileSelected(event), up to its first suspension
onFileSelected(sel) ==
  /\ budget > 0
  /\ budget' = budget - 1
  /\ IF sel = <<>>
       THEN UNCHANGED <<isLoading, loaderVars, fileChains, lastAlert>>
     ELSE IF ~isPdf(sel[1])
       THEN /\ lastAlert' = AlertNotPdf
            /\ UNCHANGED <<isLoading, loaderVars, fileChains>>
     ELSE LET r == loadPdfLibraries
              st == r.promises[r.promise].state
          IN /\ isLoading' = TRUE
             /\ scriptsLoadedPromise' = r.cached
             /\ scripts' = r.scripts
             /\ promises' = r.promises
             /\ workerSrc' = r.workerSrc
             /\ fileChains' = With(fileChains, FreshId(fileChains),
                   [pc |-> IF st = "resolved" THEN "arrayBuffer" ELSE "libs",
                    file |-> sel[1].name, promise |-> r.promise])
             /\ UNCHANGED lastAlert
  /\ UNCHANGED <<sessionVars, viewVars, editedTexts, canvasRef, renderChains,
                 exportChains, download>>

\* file.arrayBuffer() resolves: the buffer is stored and loadPdf is deferred
FileRead(c) ==
  /\ c \in DOMAIN fileChains
  /\ fileChains[c].pc = "arrayBuffer"
  /\ pdfFileBuffer' = fileChains[c].file
  /\ fileChains' = [fileChains EXCEPT ![c].pc = "loadPdf"]
  /\ UNCHANGED <<isLoading, pdfDocProxy, currentPage, totalPages, zoom, viewVars,
                 editedTexts, loaderVars, canvasRef, renderChains, exportChains,
                 lastAlert, download, budget>>

\* file.arrayBuffer() rejects: the outer catch of onFileSelected
FileReadFails(c) ==
  /\ c \in DOMAIN fileChains
  /\ fileChains[c].pc = "arrayBuffer"
  /\ lastAlert' = AlertLibraries
  /\ isLoading' = FALSE
  /\ fileChains' = Without(fileChains, c)
  /\ UNCHANGED <<sessionVars, viewVars, editedTexts, loaderVars, canvasRef,
                 renderChains, exportChains, download, budget>>

\* the catch of the setTimeout callback
loadFailed(c) ==
  /\ lastAlert' = AlertLoadFailed
  /\ pdfFileBuffer' = Null
  /\ isLoading' = FALSE
  /\ fileChains' = Without(fileChains, c)
  /\ UNCHANGED <<pdfDocProxy, currentPage, totalPages, zoom, viewVars, editedTexts,
                 loaderVars, canvasRef, renderChains, exportChains, download, budget>>

\* the rasterizer can parse the bytes of this file
Parses(f) == f \in Docs

\* the two guards without the test of the canvas
renderStartsNoCanvasTest(proxy, total, pageNum) ==
  /\ proxy # Null
  /\ pageNum >= 1
  /\ pageNum <= total
\* the two guards without the upper end of the page range
renderStartsUnbounded(proxy, total, pageNum) ==
  /\ proxy # Null
  /\ pageNum >= 1
  /\ canvasRef
\* renderPage(pageNum) passes its two guards
renderStarts(proxy, total, pageNum) ==
  /\ proxy # Null
  /\ pageNum >= 1
  /\ pageNum <= total
  /\ canvasRef

\* renderPage without its write of the loading flag
renderPageNoFlag(proxy, total, cur, pageNum, fromLoad) ==
  IF renderStarts(proxy, total, pageNum)
    THEN /\ isLoading' = isLoading
         /\ currentPage' = pageNum
         /\ renderChains' = With(renderChains, FreshId(renderChains),
               [pc |-> "getPage", doc |-> proxy, page |-> pageNum, fromLoad |-> fromLoad])
    ELSE /\ isLoading' = isLoading
         /\ currentPage' = cur
         /\ renderChains' = renderChains

\* renderPage(pageNum) up to its first suspension, called with the document
\* `proxy` of `total` pages while page `cur` is current; fromLoad marks the
\* call awaited by loadPdf
renderPage(proxy, total, cur, pageNum, fromLoad) ==
  IF renderStarts(proxy, total, pageNum)
    THEN /\ isLoading' = TRUE
         /\ currentPage' = pageNum
         /\ renderChains' = With(renderChains, FreshId(renderChains),
               [pc |-> "getPage", doc |-> proxy, page |-> pageNum, fromLoad |-> fromLoad])
    ELSE /\ isLoading' = isLoading
         /\ currentPage' = cur
         /\ renderChains' = renderChains

\* loadPdf without its reset of the overlay
loadPdfKeepsEdits(d) == [pdfDocProxy |-> d, totalPages |-> NumPages(d), currentPage |-> 1,
                         editedTexts |-> editedTexts]
\* what loadPdf stores once the document is parsed
loadPdf(d) == [pdfDocProxy |-> d, totalPages |-> NumPages(d), currentPage |-> 1,
               editedTexts |-> <<>>]

\* exports that hold a Map of the overlay lose every alias to it
Unshared(chains) == [e \in DOMAIN chains |-> [chains[e] EXCEPT !.share = "none"]]

\* pdfjsLib.getDocument(...).promise settles with a document: the global
\* exists, its worker is configured and the bytes parse
getDocument(f) == Defined(scripts, PdfJsUrl) /\ workerSrc /\ Parses(f)

\* the setTimeout callback runs loadPdf and loadingTask.promise resolves
GetDocument(c) ==
  /\ c \in DOMAIN fileChains
  /\ fileChains[c].pc = "loadPdf"
  /\ getDocument(fileChains[c].file)
  /\ LET s == loadPdf(fileChains[c].file)
     IN /\ pdfDocProxy' = s.pdfDocProxy
        /\ totalPages' = s.totalPages
        /\ editedTexts' = s.editedTexts
        /\ renderPage(s.pdfDocProxy, s.totalPages, s.currentPage, 1, TRUE)
  /\ exportChains' = Unshared(exportChains)
  /\ fileChains' = Without(fileChains, c)
  /\ UNCHANGED <<pdfFileBuffer, zoom, viewVars, loaderVars, canvasRef, lastAlert,
                 download, budget>>

\* the setTimeout callback runs loadPdf, which throws or whose
\* loadingTask.promise rejects
GetDocumentFails(c) ==
  /\ c \in DOMAIN fileChains
  /\ fileChains[c].pc = "loadPdf"
  /\ ~getDocument(fileChains[c].file)
  /\ loadFailed(c)

\* ----------------------------------------------------------- page renderer

\* canvas.width and canvas.height hold integers: the viewport at the zoom
\* factor (kept in quarters), truncated
viewport(d, p, z) == [width |-> (PageWidth(d, p) * z) \div 4,
                      height |-> (PageHeight(d, p) * z) \div 4]

\* getPage resolves: the canvas is resized to the viewport at the zoom factor
\* of this moment, and the paint is started
GetPage(r) ==
  /\ r \in DOMAIN renderChains
  /\ renderChains[r].pc = "getPage"
  /\ LET v == viewport(renderChains[r].doc, renderChains[r].page, zoom)
     IN /\ canvasWidth' = v.width
        /\ canvasHeight' = v.height
  /\ renderChains' = [renderChains EXCEPT ![r].pc = "paint"]
  /\ UNCHANGED <<isLoading, sessionVars, textItems, editedTexts, loaderVars, canvasRef,
                 fileChains, exportChains, lastAlert, download, budget>>

\* page.render and then page.getTextContent resolve (nothing is written
\* between the two): the fragment list is replaced, the finally block runs
PagePainted(r) ==
  /\ r \in DOMAIN renderChains
  /\ renderChains[r].pc = "paint"
  /\ textItems' = Items(renderChains[r].doc, renderChains[r].page)
  /\ isLoading' = FALSE
  /\ renderChains' = Without(renderChains, r)
  /\ UNCHANGED <<sessionVars, canvasWidth, canvasHeight, editedTexts, loaderVars,
                 canvasRef, fileChains, exportChains, lastAlert, download, budget>>

\* getPage, render or getTextContent rejects: the catch and the finally block
RenderFails(r) ==
  /\ r \in DOMAIN renderChains
  /\ lastAlert' = AlertRender
  /\ isLoading' = FALSE
  /\ renderChains' = Without(renderChains, r)
  /\ UNCHANGED <<sessionVars, viewVars, editedTexts, loaderVars, canvasRef,
                 fileChains, exportChains, download, budget>>

UserEvent ==
  /\ budget > 0
  /\ budget' = budget - 1

goToPrevPage ==
  /\ UserEvent
  /\ IF currentPage > 1
       THEN renderPage(pdfDocProxy, totalPages, currentPage, currentPage - 1, FALSE)
       ELSE UNCHANGED <<isLoading, currentPage, renderChains>>
  /\ UNCHANGED <<pdfFileBuffer, pdfDocProxy, totalPages, zoom, viewVars, editedTexts,
                 loaderVars, canvasRef, fileChains, exportChains, lastAlert, download>>

goToNextPage ==
  /\ UserEvent
  /\ IF currentPage < totalPages
       THEN renderPage(pdfDocProxy, totalPages, currentPage, currentPage + 1, FALSE)
       ELSE UNCHANGED <<isLoading, currentPage, renderChains>>
  /\ UNCHANGED <<pdfFileBuffer, pdfDocProxy, totalPages, zoom, viewVars, editedTexts,
                 loaderVars, canvasRef, fileChains, exportChains, lastAlert, download>>

\* Math.min without the bound: the first argument as it is
MinUnbounded(a, b) == a
\* the page numbers renderPage is called with: below, in and above the range
PageArgs == 0..3

\* renderPage(pageNum) called on the component directly
RenderPage(pageNum) ==
  /\ UserEvent
  /\ renderPage(pdfDocProxy, totalPages, currentPage, pageNum, FALSE)
  /\ UNCHANGED <<pdfFileBuffer, pdfDocProxy, totalPages, zoom, viewVars, editedTexts,
                 loaderVars, canvasRef, fileChains, exportChains, lastAlert, download>>

Min(a, b) == IF a < b THEN a ELSE b
Max(a, b) == IF a > b THEN a ELSE b

zoomIn ==
  /\ UserEvent
  /\ zoom' = Min(zoom + ZoomStep, ZoomMax)
  /\ renderPage(pdfDocProxy, totalPages, currentPage, currentPage, FALSE)
  /\ UNCHANGED <<pdfFileBuffer, pdfDocProxy, totalPages, viewVars, editedTexts,
                 loaderVars, canvasRef, fileChains, exportChains, lastAlert, download>>

zoomOut ==
  /\ UserEvent
  /\ zoom' = Max(zoom - ZoomStep, ZoomMin)
  /\ renderPage(pdfDocProxy, totalPages, currentPage, currentPage, FALSE)
  /\ UNCHANGED <<pdfFileBuffer, pdfDocProxy, totalPages, viewVars, editedTexts,
                 loaderVars, canvasRef, fileChains, exportChains, lastAlert, download>>

\* ------------------------------------------------------------ edit tracker

\* A Map is the sequence of its entries in insertion order.  The overlay is a
\* Map from page numbers to Maps from fragment indices (from 0) to texts.
Find(m, key) == IF \E k \in DOMAIN m : m[k].key = key
                  THEN CHOOSE k \in DOMAIN m : m[k].key = key
                  ELSE 0
Has(m, key) == Find(m, key) # 0
Get(m, key) == m[Find(m, key)].value
\* Map.prototype.set: an existing key keeps its place
Set(m, key, value) ==
  IF Has(m, key)
    THEN [m EXCEPT ![Find(m, key)].value = value]
    ELSE Append(m, [key |-> key, value |-> value])

\* the callback starting the page's Map anew at every edit
setEditFresh(currentMap, page, itemIndex, newText) ==
  Set(currentMap, page, Set(<<>>, itemIndex, newText))
\* the callback of editedTexts.update in updateText, on page `page`
setEdit(currentMap, page, itemIndex, newText) ==
  LET pageEdits == IF Has(currentMap, page) THEN Get(currentMap, page) ELSE <<>>
  IN Set(currentMap, page, Set(pageEdits, itemIndex, newText))

\* What updateText does to the Map an export holds.  The Map the signal held
\* at the call is written in place, and so are the per-page Maps, which every
\* copy of it shares; the signal then holds a fresh copy.
aliased(chain, page, updated) ==
  IF chain.share = "outer"
    THEN [chain EXCEPT !.map = updated, !.share = "inner"]
  ELSE IF chain.share = "inner" /\ Has(chain.map, page)
    THEN [chain EXCEPT !.map = Set(chain.map, page, Get(updated, page))]
  ELSE chain

\* updateText(itemIndex, event): the view offers the fragments of textItems,
\* so itemIndex is a place in that list
updateText(itemIndex, newText) ==
  /\ UserEvent
  /\ itemIndex \in 0..(Len(textItems) - 1)
  /\ editedTexts' = setEdit(editedTexts, currentPage, itemIndex, newText)
  /\ exportChains' = [e \in DOMAIN exportChains |->
                        aliased(exportChains[e], currentPage, editedTexts')]
  /\ UNCHANGED <<isLoading, sessionVars, viewVars, loaderVars, canvasRef, fileChains,
                 renderChains, lastAlert, download>>

\* getEditedText with || for ??: an empty replacement falls through
getEditedTextFalsy(itemIndex) ==
  IF /\ Has(editedTexts, currentPage)
     /\ Has(Get(editedTexts, currentPage), itemIndex)
     /\ Get(Get(editedTexts, currentPage), itemIndex) # ""
    THEN Get(Get(editedTexts, currentPage), itemIndex)
    ELSE IF itemIndex < Len(textItems) THEN textItems[itemIndex + 1].str
    ELSE "TypeError"
\* getEditedText(itemIndex)
getEditedText(itemIndex) ==
  IF Has(editedTexts, currentPage) /\ Has(Get(editedTexts, currentPage), itemIndex)
    THEN Get(Get(editedTexts, currentPage), itemIndex)
    ELSE IF itemIndex < Len(textItems) THEN textItems[itemIndex + 1].str
    ELSE "TypeError"

\* --------------------------------------------------------- export pipeline

\* the output coordinates of a fragment with transform tx on a page whose
\* viewport at scale 1 is viewportHeight high
outputX(tx) == tx[5]
\* the vertical coordinate taken over without inverting it
outputYTopLeft(viewportHeight, tx) == tx[6]
outputY(viewportHeight, tx) == viewportHeight - tx[6]

\* the drawRectangle and drawText calls for one edit of a fragment
drawEdit(pageNum, item, viewportHeight, newText) ==
  LET x == outputX(item.transform)
      y == outputY(viewportHeight, item.transform)
  IN << [op |-> "rect", page |-> pageNum, x |-> x, y |-> y,
         width |-> item.width, height |-> item.height],
        [op |-> "text", page |-> pageNum, x |-> x, y |-> y,
         size10 |-> item.height * 9, text |-> newText] >>

\* the inner loop leaving at the first edit out of range (break for continue)
RECURSIVE drawEditsUntilSkip(_, _, _, _)
drawEditsUntilSkip(pageNum, items, viewportHeight, edits) ==
  IF edits = <<>> THEN <<>>
  ELSE LET ed == Head(edits)
       IN IF ed.key >= Len(items)
            THEN <<>>
            ELSE drawEdit(pageNum, items[ed.key + 1], viewportHeight, ed.value)
                   \o drawEditsUntilSkip(pageNum, items, viewportHeight, Tail(edits))

\* the inner loop of downloadPdf over the edits of one page, against the
\* fragments `items` re-extracted for it
RECURSIVE drawEdits(_, _, _, _)
drawEdits(pageNum, items, viewportHeight, edits) ==
  IF edits = <<>> THEN <<>>
  ELSE LET ed == Head(edits)
           rest == drawEdits(pageNum, items, viewportHeight, Tail(edits))
       IN IF ed.key >= Len(items)
            THEN rest
            ELSE drawEdit(pageNum, items[ed.key + 1], viewportHeight, ed.value) \o rest

\* the outer loop's test: the entry's page is a page of the output document
pageInRange(pageNum, nPages) == ~(pageNum - 1 < 0 \/ pageNum - 1 >= nPages)

\* the outer loop of downloadPdf moves on from entry `pos` of the Map it
\* iterates: the place of the next entry whose page it does not skip, or 0
nextEntry(m, pos, nPages) ==
  IF \E k \in (pos + 1)..Len(m) : pageInRange(m[k].key, nPages)
    THEN CHOOSE k \in (pos + 1)..Len(m) :
           /\ pageInRange(m[k].key, nPages)
           /\ \A j \in (pos + 1)..(k - 1) : ~pageInRange(m[j].key, nPages)
    ELSE 0

\* the catch and the finally block of downloadPdf
exportFailed(e) ==
  /\ lastAlert' = AlertSave
  /\ isLoading' = FALSE
  /\ exportChains' = Without(exportChains, e)
  /\ UNCHANGED download

\* the outer loop runs on from entry `pos` of chain `ch` until its next await:
\* getPage of the document the signal holds now, or save after the last entry
exportLoop(e, ch, pos) ==
  LET k == nextEntry(ch.map, pos, NumPages(ch.buf))
  IN IF k = 0
       THEN /\ exportChains' = With(exportChains, e, [ch EXCEPT !.pc = "save"])
            /\ UNCHANGED <<isLoading, lastAlert, download>>
     ELSE IF pdfDocProxy = Null
       THEN exportFailed(e)
     ELSE /\ exportChains' = With(exportChains, e,
                [ch EXCEPT !.pc = "page", !.pos = k, !.hdoc = pdfDocProxy])
          /\ UNCHANGED <<isLoading, lastAlert, download>>

\* downloadPdf without its test of the overlay's size
downloadPdfUnchecked ==
  /\ UserEvent
  /\ IF pdfFileBuffer = Null \/ ~Defined(scripts, PdfLibUrl)
       THEN /\ lastAlert' = AlertNoPdf
            /\ UNCHANGED <<isLoading, exportChains>>
     ELSE /\ isLoading' = TRUE
          /\ exportChains' = With(exportChains, FreshId(exportChains),
                [pc |-> "open", buf |-> pdfFileBuffer, map |-> <<>>, pos |-> 0,
                 share |-> "none", hdoc |-> Null, ops |-> <<>>])
          /\ UNCHANGED lastAlert
  /\ UNCHANGED <<sessionVars, viewVars, editedTexts, loaderVars, canvasRef,
                 fileChains, renderChains, download>>

\* downloadPdf() up to its first suspension
downloadPdf ==
  /\ UserEvent
  /\ IF pdfFileBuffer = Null \/ ~Defined(scripts, PdfLibUrl)
       THEN /\ lastAlert' = AlertNoPdf
            /\ UNCHANGED <<isLoading, exportChains>>
     ELSE IF Len(editedTexts) = 0
       THEN /\ lastAlert' = AlertNoChanges
            /\ UNCHANGED <<isLoading, exportChains>>
     ELSE /\ isLoading' = TRUE
          /\ exportChains' = With(exportChains, FreshId(exportChains),
                [pc |-> "open", buf |-> pdfFileBuffer, map |-> <<>>, pos |-> 0,
                 share |-> "none", hdoc |-> Null, ops |-> <<>>])
          /\ UNCHANGED lastAlert
  /\ UNCHANGED <<sessionVars, viewVars, editedTexts, loaderVars, canvasRef,
                 fileChains, renderChains, download>>

\* PDFDocument.load and then embedFont resolve (nothing is written between
\* the two): the loop starts on the Map the signal holds now
ExportOpened(e) ==
  /\ e \in DOMAIN exportChains
  /\ exportChains[e].pc = "open"
  /\ Parses(exportChains[e].buf)
  /\ exportLoop(e, [exportChains[e] EXCEPT !.map = editedTexts, !.share = "outer"], 0)
  /\ UNCHANGED <<sessionVars, viewVars, editedTexts, loaderVars, canvasRef,
                 fileChains, renderChains, budget>>

\* getPage and then getTextContent resolve for the entry at hand: its edits
\* are drawn and the loop runs on
ExportPage(e) ==
  /\ e \in DOMAIN exportChains
  /\ exportChains[e].pc = "page"
  /\ LET ch == exportChains[e]
         entry == ch.map[ch.pos]
     IN /\ entry.key <= NumPages(ch.hdoc)
        /\ exportLoop(e,
             [ch EXCEPT !.ops = @ \o drawEdits(entry.key, Items(ch.hdoc, entry.key),
                                               PageHeight(ch.hdoc, entry.key),
                                               entry.value)],
             ch.pos)
  /\ UNCHANGED <<sessionVars, viewVars, editedTexts, loaderVars, canvasRef,
                 fileChains, renderChains, budget>>

\* pdfDoc.save resolves: the bytes are downloaded, the finally block runs
ExportSaved(e) ==
  /\ e \in DOMAIN exportChains
  /\ exportChains[e].pc = "save"
  /\ download' = [src |-> exportChains[e].buf, ops |-> exportChains[e].ops]
  /\ isLoading' = FALSE
  /\ exportChains' = Without(exportChains, e)
  /\ UNCHANGED <<sessionVars, viewVars, editedTexts, loaderVars, canvasRef,
                 fileChains, renderChains, lastAlert, budget>>

\* a call awaited by downloadPdf rejects
ExportFails(e) ==
  /\ e \in DOMAIN exportChains
  /\ exportFailed(e)
  /\ UNCHANGED <<sessionVars, viewVars, editedTexts, loaderVars, canvasRef,
                 fileChains, renderChains, budget>>

\* the view creates the canvas element
CanvasReady ==
  /\ ~canvasRef
  /\ canvasRef' = TRUE
  /\ UNCHANGED <<isLoading, sessionVars, viewVars, editedTexts, loaderVars,
                 chainVars, lastAlert, download, budget>>

Next ==
  \/ \E sel \in Selections : onFileSelected(sel)
  \/ \E k \in DOMAIN scripts : ScriptOnload(k)
  \/ \E k \in DOMAIN scripts : ScriptOnerror(k)
  \/ \E c \in DOMAIN fileChains : FileRead(c)
  \/ \E c \in DOMAIN fileChains : FileReadFails(c)
  \/ \E c \in DOMAIN fileChains : GetDocument(c)
  \/ \E c \in DOMAIN fileChains : GetDocumentFails(c)
  \/ CanvasReady
  \/ \E r \in DOMAIN renderChains : GetPage(r)
  \/ \E r \in DOMAIN renderChains : PagePainted(r)
  \/ \E r \in DOMAIN renderChains : RenderFails(r)
  \/ goToPrevPage
  \/ goToNextPage
  \/ zoomIn
  \/ zoomOut
  \/ \E i \in 0..1, t \in Texts : updateText(i, t)
  \/ downloadPdf
  \/ \E e \in DOMAIN exportChains : ExportOpened(e)
  \/ \E e \in DOMAIN exportChains : ExportPage(e)
  \/ \E e \in DOMAIN exportChains : ExportSaved(e)
  \/ \E e \in DOMAIN exportChains : ExportFails(e)

Spec == Init /\ [][Next]_vars

\* A session as it stands once docA is loaded and page `p` is shown, with the
\* overlay `overlay`: the libraries are loaded and no chain is in flight.
Session(p, overlay, events) ==
  /\ isLoading = FALSE
  /\ pdfFileBuffer = "docA"
  /\ pdfDocProxy = "docA"
  /\ currentPage = p
  /\ totalPages = NumPages("docA")
  /\ zoom = InitialZoom
  /\ canvasWidth = viewport("docA", p, InitialZoom).width
  /\ canvasHeight = viewport("docA", p, InitialZoom).height
  /\ textItems = Items("docA", p)
  /\ editedTexts = overlay
  /\ scriptsLoadedPromise = 1
  /\ canvasRef = TRUE
  /\ scripts = <<[src |-> Urls[1], state |-> "loaded", owner |-> 1],
                 [src |-> Urls[2], state |-> "loaded", owner |-> 1]>>
  /\ promises = <<[state |-> "resolved", legs |-> <<"resolved", "resolved">>]>>
  /\ workerSrc = TRUE
  /\ fileChains = EmptyChains
  /\ renderChains = EmptyChains
  /\ exportChains = EmptyChains
  /\ lastAlert = NoAlert
  /\ download = NoDownload
  /\ budget = events

\* docA has just been loaded and page 1 rendered
Loaded == Session(1, <<>>, MaxActions)

\* the overlays one or two edits of "X" leave on docA (an edit made while a
\* render is in flight is recorded against the page being rendered, with an
\* index into the fragments still shown)
Overlays == {setEdit(setEdit(<<>>, p1, i1, "X"), p2, i2, "X") :
               p1 \in 1..2, i1 \in 0..1, p2 \in 1..2, i2 \in 0..1}

\* docA is loaded and edited
Edited == \E p \in 1..2, ov \in Overlays : Session(p, ov, MaxExportActions)

\* every action but the script events, which need a script still loading
NextSession ==
  \/ \E sel \in Selections : onFileSelected(sel)
  \/ \E c \in DOMAIN fileChains : FileRead(c)
  \/ \E c \in DOMAIN fileChains : FileReadFails(c)
  \/ \E c \in DOMAIN fileChains : GetDocument(c)
  \/ \E c \in DOMAIN fileChains : GetDocumentFails(c)
  \/ \E r \in DOMAIN renderChains : GetPage(r)
  \/ \E r \in DOMAIN renderChains : PagePainted(r)
  \/ \E r \in DOMAIN renderChains : RenderFails(r)
  \/ goToPrevPage
  \/ goToNextPage
  \/ zoomIn
  \/ zoomOut
  \/ \E i \in 0..1, t \in Texts : updateText(i, t)
  \/ downloadPdf
  \/ \E e \in DOMAIN exportChains : ExportOpened(e)
  \/ \E e \in DOMAIN exportChains : ExportPage(e)
  \/ \E e \in DOMAIN exportChains : ExportSaved(e)
  \/ \E e \in DOMAIN exportChains : ExportFails(e)

SpecSession == Loaded /\ [][NextSession]_vars
SpecExport == Edited /\ [][NextSession]_vars

\* the zoom and page buttons alone, pressed before a document is loaded
NextZoom ==
  \/ zoomIn
  \/ zoomOut
  \/ goToPrevPage
  \/ goToNextPage
  \/ CanvasReady

SpecZoom == Fresh(MaxZoomActions) /\ [][NextZoom]_vars

\* every action, and renderPage called with any page number
NextRender ==
  \/ Next
  \/ \E p \in PageArgs : RenderPage(p)

SpecRender == Fresh(MaxRenderActions) /\ [][NextRender]_vars

\* The view dispatches file selections, page changes, zooms and exports only
\* while isLoading is false; edits and every other step come as they may.
NextGated ==
  \/ ~isLoading /\ \E sel \in Selections : onFileSelected(sel)
  \/ ~isLoading /\ goToPrevPage
  \/ ~isLoading /\ goToNextPage
  \/ ~isLoading /\ zoomIn
  \/ ~isLoading /\ zoomOut
  \/ ~isLoading /\ downloadPdf
  \/ \E i \in 0..1, t \in Texts : updateText(i, t)
  \/ \E k \in DOMAIN scripts : ScriptOnload(k)
  \/ \E k \in DOMAIN scripts : ScriptOnerror(k)
  \/ \E c \in DOMAIN fileChains : FileRead(c)
  \/ \E c \in DOMAIN fileChains : FileReadFails(c)
  \/ \E c \in DOMAIN fileChains : GetDocument(c)
  \/ \E c \in DOMAIN fileChains : GetDocumentFails(c)
  \/ CanvasReady
  \/ \E r \in DOMAIN renderChains : GetPage(r)
  \/ \E r \in DOMAIN renderChains : PagePainted(r)
  \/ \E r \in DOMAIN renderChains : RenderFails(r)
  \/ \E e \in DOMAIN exportChains : ExportOpened(e)
  \/ \E e \in DOMAIN exportChains : ExportPage(e)
  \/ \E e \in DOMAIN exportChains : ExportSaved(e)
  \/ \E e \in DOMAIN exportChains : ExportFails(e)

SpecGated == Fresh(MaxGatedActions) /\ [][NextGated]_vars

\* ------------------------------------------------------------------ claims

Elements(url) == {k \in DOMAIN scripts : scripts[k].src = url}
NoLoadFailed == \A k \in DOMAIN scripts : scripts[k].state # "error"
Idle == DOMAIN fileChains = {} /\ DOMAIN renderChains = {} /\ DOMAIN exportChains = {}

\* C1: while no script load has failed, however many calls of
\* loadPdfLibraries were made, each library has exactly one script element,
\* there is one promise, it is the cached one and every caller awaits it.
C1_OneFetchPerLibrary ==
  (NoLoadFailed /\ promises # <<>>) =>
     /\ \A i \in DOMAIN Urls : Cardinality(Elements(Urls[i])) = 1
     /\ Len(promises) = 1
     /\ scriptsLoadedPromise = 1
     /\ \A c \in DOMAIN fileChains : fileChains[c].promise = 1

\* two calls wait on the one load in flight
C1_Witness ==
  /\ NoLoadFailed
  /\ \E c, d \in DOMAIN fileChains :
       c # d /\ fileChains[c].pc = "libs" /\ fileChains[d].pc = "libs"

\* C2: a load attempt that is cached (in flight or succeeded) fetches every
\* library itself: after a failure the next attempt has, for each library, a
\* script element that is loading or loaded, not only the one that failed.
C2_RetryFetchesAgain ==
  scriptsLoadedPromise # 0 =>
    \A i \in DOMAIN Urls :
      \E k \in Elements(Urls[i]) : scripts[k].state \in {"loading", "loaded"}

\* C3: once every chain has finished, the loading flag is false.
C3_LoadingClearedWhenIdle == Idle => ~isLoading

\* C4: when loadPdf has parsed a new document it leaves the overlay empty and
\* currentPage 1, whatever they were, and the steps of the render it awaits
\* keep both until it completes.
C4_LoadResetsSession ==
  [][ /\ \A c \in DOMAIN fileChains :
           GetDocument(c) => (editedTexts' = <<>> /\ currentPage' = 1)
      /\ \A r \in DOMAIN renderChains :
           (renderChains[r].fromLoad /\ (GetPage(r) \/ PagePainted(r) \/ RenderFails(r)))
             => UNCHANGED <<editedTexts, currentPage>> ]_vars

\* docB has been loaded and shown over a session that was zoomed
C4_Witness ==
  /\ Idle
  /\ pdfDocProxy = "docB"
  /\ textItems = Items("docB", 1)
  /\ zoom # InitialZoom
  /\ editedTexts = <<>>
  /\ currentPage = 1

\* C5: a failed load leaves no byte buffer and no parsed handle.
C5_FailedLoadDiscardsSession ==
  [][ \A c \in DOMAIN fileChains :
        GetDocumentFails(c) => (pdfFileBuffer' = Null /\ pdfDocProxy' = Null) ]_vars

\* C6: selecting a file that is not a PDF changes nothing but the notice: no
\* loader or rasterizer call, no chain, no session, view or overlay change.
C6_RejectChangesNothing ==
  [][ \A f \in Files :
        (~(f.type = PdfType) /\ onFileSelected(<<f>>))
          => UNCHANGED <<isLoading, sessionVars, viewVars, editedTexts, loaderVars,
                         canvasRef, chainVars, download>> ]_vars

\* a file that is not a PDF was rejected while docA was loaded and shown
C6_Witness ==
  /\ lastAlert = AlertNotPdf
  /\ pdfDocProxy = "docA"
  /\ textItems = Items("docA", 1)
  /\ Idle

Recorded(p, i) == Has(editedTexts, p) /\ Has(Get(editedTexts, p), i)
Edit(p, i) == Get(Get(editedTexts, p), i)
PageNumbers == 1..2
FragmentIndices == 0..1

\* C7: updateText(i, X) on page p records X for (p, i); the record stays, with
\* its text, over every step but a document load and another edit of (p, i);
\* and whenever page p is current getEditedText(i) is the recorded text.
C7_EditSurvivesPageChanges ==
  [][ \A p \in PageNumbers, i \in FragmentIndices :
        /\ \A t \in Texts :
             (currentPage = p /\ updateText(i, t))
               => (Recorded(p, i)' /\ Edit(p, i)' = t)
        /\ ( /\ Recorded(p, i)
             /\ ~(\E c \in DOMAIN fileChains : GetDocument(c))
             /\ ~(currentPage = p /\ \E t \in Texts : updateText(i, t)) )
               => (Recorded(p, i)' /\ Edit(p, i)' = Edit(p, i))
        /\ (Recorded(p, i)' /\ currentPage' = p)
               => getEditedText(i)' = Edit(p, i)' ]_vars

\* fragment 0 of page 1 is edited and page 1 is shown again, re-rendered at
\* another zoom
C7_Witness ==
  /\ Recorded(1, 0)
  /\ currentPage = 1
  /\ getEditedText(0) \in Texts
  /\ textItems = Items("docA", 1)
  /\ canvasHeight # viewport("docA", 1, InitialZoom).height
  /\ Idle

\* C8: downloadPdf with an empty overlay or without a byte buffer raises its
\* notice and changes nothing else: no chain starts, no file is downloaded.
C8_NothingToExport ==
  [][ (downloadPdf /\ (Len(editedTexts) = 0 \/ pdfFileBuffer = Null))
        => /\ lastAlert' \in {AlertNoPdf, AlertNoChanges}
           /\ UNCHANGED <<isLoading, sessionVars, viewVars, editedTexts, loaderVars,
                          canvasRef, chainVars, download>> ]_vars

\* an export was refused for want of edits while docA was loaded
C8_Witness ==
  /\ lastAlert = AlertNoChanges
  /\ pdfFileBuffer = "docA"
  /\ pdfDocProxy = "docA"
  /\ download = NoDownload
  /\ Idle

\* the edits of overlay m, in the order of its entries, that lie on a page of
\* an output document of nPages pages and on a fragment of document d
EditsOnPage(page, edits, nItems) ==
  LET kept == SelectSeq(edits, LAMBDA ed : ed.key < nItems)
  IN [k \in 1..Len(kept) |-> [page |-> page, index |-> kept[k].key, text |-> kept[k].value]]
RECURSIVE InRangeEdits(_, _, _)
InRangeEdits(m, nPages, d) ==
  IF m = <<>> THEN <<>>
  ELSE LET entry == Head(m)
           rest == InRangeEdits(Tail(m), nPages, d)
       IN IF entry.key >= 1 /\ entry.key <= nPages
            THEN EditsOnPage(entry.key, entry.value, Len(Items(d, entry.key))) \o rest
            ELSE rest
RECURSIVE CountEdits(_)
CountEdits(m) == IF m = <<>> THEN 0 ELSE Len(Head(m).value) + CountEdits(Tail(m))
TextOps(ops) == SelectSeq(ops, LAMBDA o : o.op = "text")
\* exports whose loop has ended while the overlay is still the Map it ran
\* over: no edit and no document load has come between
Undisturbed == {e \in DOMAIN exportChains :
                  exportChains[e].pc = "save" /\ exportChains[e].share = "outer"}

\* C9: an export whose loop has ended has drawn the text of exactly the edits
\* in range, in order: an edit on a page the output document lacks or on a
\* fragment index the re-extracted page lacks is skipped, the others are drawn.
C9_ExportSkipsOutOfRange ==
  \A e \in Undisturbed :
    LET ch == exportChains[e]
        expected == InRangeEdits(editedTexts, NumPages(ch.buf), pdfDocProxy)
        drawn == TextOps(ch.ops)
    IN /\ Len(drawn) = Len(expected)
       /\ \A k \in DOMAIN expected :
            drawn[k].page = expected[k].page /\ drawn[k].text = expected[k].text

\* an export of the recorded edits alone has downloaded a file: it drew some
\* of the edits and skipped others
C9_Witness ==
  /\ budget = MaxExportActions - 1
  /\ download.src # Null
  /\ download.ops # <<>>
  /\ Len(download.ops) < 2 * CountEdits(editedTexts)

OpSequences == {exportChains[e].ops : e \in DOMAIN exportChains}
                 \cup {download.ops}
\* the rectangle and the text at 2k-1 and 2k cover fragment `item` of a page
\* whose height is `height`
Covers(ops, k, item, height) ==
  LET rect == ops[2 * k - 1]
      text == ops[2 * k]
  IN /\ rect.op = "rect" /\ text.op = "text"
     /\ rect.x = item.transform[5] /\ rect.y = height - item.transform[6]
     /\ text.x = rect.x /\ text.y = rect.y /\ text.page = rect.page
     /\ rect.width = item.width /\ rect.height = item.height

\* C10: the drawing calls of an export come in pairs, a rectangle then a text,
\* both at x = t[4], y = H - t[5] of a fragment of that page number, the
\* rectangle of the fragment's width and height; and an export that ran
\* undisturbed has drawn, for its k-th edit in range, that edit's fragment.
C10_ExportCoordinates ==
  /\ \A ops \in OpSequences :
       /\ Len(ops) % 2 = 0
       /\ \A k \in 1..(Len(ops) \div 2) :
            \E d \in Docs :
              /\ ops[2 * k].page <= NumPages(d)
              /\ \E i \in DOMAIN Items(d, ops[2 * k].page) :
                   Covers(ops, k, Items(d, ops[2 * k].page)[i],
                          PageHeight(d, ops[2 * k].page))
  /\ \A e \in Undisturbed :
       LET ch == exportChains[e]
           expected == InRangeEdits(editedTexts, NumPages(ch.buf), pdfDocProxy)
       IN \A k \in DOMAIN expected :
            2 * k <= Len(ch.ops) =>
              Covers(ch.ops, k, Items(pdfDocProxy, expected[k].page)[expected[k].index + 1],
                     PageHeight(pdfDocProxy, expected[k].page))

\* the fragment at transform [1,0,0,1,50,700] of a page 792 high was edited
\* and exported: rectangle and text at x = 50, y = 92
C10_Witness ==
  /\ download.src # Null
  /\ Len(download.ops) >= 2
  /\ download.ops[1] = [op |-> "rect", page |-> 1, x |-> 50, y |-> 92,
                        width |-> 40, height |-> 12]
  /\ download.ops[2].op = "text"
  /\ download.ops[2].x = 50
  /\ download.ops[2].y = 92

ZoomRange == ZoomMin..ZoomMax

\* C11: from the initial zoom 1.25 the zoom factor stays within [0.5, 3];
\* zoomIn adds 0.25 below the maximum and changes nothing at it, zoomOut takes
\* 0.25 off above the minimum and changes nothing at it, and no other step
\* changes the zoom factor.
C11_ZoomStaysInRange ==
  /\ [](zoom \in ZoomRange)
  /\ [][ /\ zoomIn => zoom' = (IF zoom = ZoomMax THEN zoom ELSE zoom + ZoomStep)
         /\ zoomOut => zoom' = (IF zoom = ZoomMin THEN zoom ELSE zoom - ZoomStep)
         /\ zoom' # zoom => (zoomIn \/ zoomOut) ]_vars

\* seven presses of zoomIn took the zoom factor from 1.25 to 3 and an eighth
\* left it there
C11_Witness ==
  /\ zoom = ZoomMax
  /\ budget = MaxZoomActions - 8

\* the conditions under which renderPage(p) is to do nothing
NothingToRender(p) ==
  pdfDocProxy = Null \/ p < 1 \/ p > totalPages \/ ~canvasRef

\* C12: renderPage(p) called while no document is loaded, with p outside
\* [1, totalPages] or before the canvas exists changes none of currentPage,
\* isLoading, the fragment list, the canvas size and the overlay, and starts
\* no render; so do zoomIn and zoomOut, which call it with the current page.
C12_RenderGuardsNoOp ==
  [][ /\ \A p \in PageArgs :
           (RenderPage(p) /\ NothingToRender(p))
             => UNCHANGED <<currentPage, isLoading, viewVars, editedTexts, renderChains>>
      /\ ((zoomIn \/ zoomOut) /\ NothingToRender(currentPage))
             => UNCHANGED <<currentPage, isLoading, viewVars, editedTexts, renderChains>>
    ]_vars

\* docA is loaded, the canvas does not exist yet, and a zoom button was
\* pressed: the renderPage it called has started no render
C12_Witness ==
  /\ pdfDocProxy = "docA"
  /\ ~canvasRef
  /\ zoom # InitialZoom
  /\ textItems = <<>>
  /\ canvasHeight = 0
  /\ currentPage = 1
  /\ DOMAIN renderChains = {}

\* C13: whenever no render is in flight, and none has failed, the fragment
\* list holds the fragments of page currentPage of the current document.
C13_FragmentsOfCurrentPage ==
  (DOMAIN renderChains = {} /\ lastAlert = NoAlert /\ pdfDocProxy # Null /\ canvasRef)
    => textItems = Items(pdfDocProxy, currentPage)

\* C14: when the render started by the first user event of a session fails,
\* currentPage and the fragment list refer to the same page afterwards, as
\* they did before the call.
C14_FailedRenderKeepsPage ==
  [][ \A r \in DOMAIN renderChains :
        (budget = MaxActions - 1 /\ DOMAIN renderChains = {r} /\ RenderFails(r))
          => textItems' = Items(pdfDocProxy', currentPage') ]_vars

Loads == \E c \in DOMAIN fileChains : GetDocument(c)
Edits == \E i \in FragmentIndices, t \in Texts : updateText(i, t)

\* C15: every outer key of the overlay maps to a non-empty Map; a page becomes
\* an outer key only by updateText called while it is the current page, or is
\* left empty by a document load; and no step other than a document load
\* removes an entry: page changes, zooms, renders, failed renders, exports and
\* edits keep every recorded (page, fragment).
C15_OverlayOnlyGrows ==
  /\ [](\A k \in DOMAIN editedTexts : editedTexts[k].value # <<>>)
  /\ [][ /\ \A p \in PageNumbers :
              (Has(editedTexts, p)' /\ ~Has(editedTexts, p))
                => (currentPage = p /\ Edits)
         /\ Loads => editedTexts' = <<>>
         /\ ~Loads => \A p \in PageNumbers, i \in FragmentIndices :
                         Recorded(p, i) => Recorded(p, i)'
         /\ editedTexts' # editedTexts => (Loads \/ Edits) ]_vars

\* a fragment of page 1 was edited, then page 2 was shown and a fragment of it
\* edited: both pages are outer keys
C15_Witness ==
  /\ Recorded(1, 0)
  /\ Recorded(2, 0)
  /\ editedTexts[1].key = 1
  /\ currentPage = 2
  /\ textItems = Items("docA", 2)
  /\ Idle

\* C16: updateText leaves the Map the signal held before the call, and the
\* per-page Maps in it, with the contents they had: an export iterating that
\* Map sees the same entries after the call as before it.
C16_UpdateLeavesOldMap ==
  [][ Edits => \A e \in DOMAIN exportChains :
                 exportChains[e].share # "none"
                   => exportChains'[e].map = exportChains[e].map ]_vars

\* C17: whenever a promise returned by loadPdfLibraries has resolved, both
\* libraries have a script element whose onload has fired.
C17_ResolvedMeansLoaded ==
  \A p \in DOMAIN promises :
    promises[p].state = "resolved" => \A i \in DOMAIN Urls : Defined(scripts, Urls[i])

\* C18: an export that has passed its checks and re-extracts a page does so
\* from the document whose bytes it loaded: the byte buffer it read and the
\* parsed handle it calls getPage on belong to the same file.
C18_ExportOfOneDocument ==
  \A e \in DOMAIN exportChains :
    exportChains[e].pc = "page" => exportChains[e].hdoc = exportChains[e].buf

\* the asynchronous chains in flight, the deferred loadPdf included
InFlight == Cardinality(DOMAIN fileChains) + Cardinality(DOMAIN renderChains)
              + Cardinality(DOMAIN exportChains)

\* C19: when file selections, page changes, zooms and exports are dispatched
\* only while isLoading is false, at most one chain is in flight at any time,
\* isLoading is true whenever one is, and every step that starts a chain
\* leaves isLoading true.
C19_OneChainWhenGated ==
  /\ [](InFlight <= 1 /\ (InFlight = 1 => isLoading))
  /\ [][ InFlight' > InFlight => isLoading' ]_vars

\* a document was loaded and edited, and its export is the one chain in flight
C19_Witness ==
  /\ InFlight = 1
  /\ \E e \in DOMAIN exportChains : exportChains[e].pc = "page"
  /\ isLoading
  /\ textItems # <<>>

\* C20: in every reachable state with totalPages >= 1, currentPage lies in
\* [1, totalPages].
C20_CurrentPageInRange ==
  totalPages >= 1 => (1 <= currentPage /\ currentPage <= totalPages)

\* docB, of one page, was loaded while page 2 of docA was shown
C20_Witness ==
  /\ pdfDocProxy = "docB"
  /\ totalPages = 1
  /\ currentPage = 1
  /\ textItems = Items("docA", 2)
====
